---- MODULE Spec2Model ----
(***************************************************************************)
(* graphql-import: the import-graph resolver (GraphQLFileLoader), the two  *)
(* DocumentDefinitionFilter variants (the two-argument filter that keeps   *)
(* its visited set on the instance, and the TypeMap-based filter) and the  *)
(* merge step of loadFile, as state machines over parsed SDL documents.    *)
(***************************************************************************)
EXTENDS Naturals, Sequences, FiniteSets, TLC

VARIABLES
  store,            \* storage: file path -> [lines, definitions] of the files that exist
  pc,               \* position of the running call
  files,            \* buildImportDependencyTreeFrom: work stack of file paths
  visited,          \* buildImportDependencyTreeFrom: visited file paths
  imports,          \* buildImportDependencyTreeFrom: the Map, as its entries in insertion order
  entries,          \* loadFile: copy of the Map's entries, popped from the end
  definitions,      \* loadFile: merged definition list, each node tagged with its file
  output,           \* loadFile: what the call returned
  scans,            \* history: how often each file's content was scanned for import lines
  passes,           \* history: how often each file went through a wildcard or filter pass
  document,         \* filter: the definitions of the document being filtered
  otherDependencies,\* TypeMap-based filter: the definitions put before the document's
  types,            \* filter: the requested names
  visiting,         \* filter: work list (a stack)
  dependencies,     \* two-argument filter: the closed dependency set
  _visited,         \* two-argument filter: this._visited of the filter instance
  fvisited,         \* TypeMap-based filter: its local visited Set, in insertion order
  pruned,           \* filter: the documents returned by the calls made so far
  odd,              \* history: whether the running first pass took an odd number of turns
  fileName,         \* loadFile: the file whose filter pass is running
  _cache,           \* CachedFileLoader: this._cache, absolute path to trimmed content
  disk,             \* storage: what fs.readFile finds at each absolute path
  pending,          \* CachedFileLoader.loadFile: the calls waiting for fs.readFile
  log,              \* history: the loadFile calls of the file loader that have ended
  writes,           \* history: how often storage was changed
  _graphqlCache,    \* CachedGraphqlParser: this._cache, file path to Document object
  parses,           \* history: how often graphql.parse built a Document object
  parseLog,         \* history: the parse calls of the parser that have ended
  _typeMaps,        \* DocumentDefinitionFilter: this._typeMaps, Document object to TypeMap
  constructed,      \* history: how many TypeMap objects were constructed
  waiting,          \* loadFile: the calls of the instance that wait at an await
  returns           \* history: what the calls of loadFile that ended returned

vars == << store, pc, files, visited, imports, entries, definitions, output, scans,
           passes, document, otherDependencies, types, visiting, dependencies,
           _visited, fvisited, pruned, odd, fileName, _cache, disk, pending, log,
           writes, _graphqlCache, parses, parseLog, _typeMaps, constructed,
           waiting, returns >>

cacheVars == << _cache, disk, pending, log, writes >>

parserVars == << _graphqlCache, parses, parseLog >>

typeMapVars == << _typeMaps, constructed >>

loadsVars == << waiting, returns >>

loaderVars == << store, files, visited, imports, entries, definitions, output, scans,
                 passes, fileName >>

-----------------------------------------------------------------------------
(* Bounds of the model *)

\* most definitions in a document handed to a filter on its own
MaxDefs == 4
\* most requested names in a filter call made on its own
MaxTypes == 2
\* most import lines in all the files of storage together
MaxImportLines == 2

-----------------------------------------------------------------------------
(* Sequence helpers *)

Range(s) == { s[i] : i \in 1..Len(s) }

Last(s) == s[Len(s)]

Front(s) == SubSeq(s, 1, Len(s) - 1)

RECURSIVE Flatten(_)
Flatten(ss) == IF ss = << >> THEN << >> ELSE Head(ss) \o Flatten(Tail(ss))

\* Array.prototype.map
Map(Op(_), s) == [ i \in 1..Len(s) |-> Op(s[i]) ]

\* Array.prototype.filter
Filter(Keep(_), s) == SelectSeq(s, Keep)

\* the sequences over S of length at most n
SeqsUpTo(S, n) == UNION { [1..k -> S] : k \in 0..n }

\* the elements of s at the positions in ix, in the order of s
RECURSIVE Pick(_, _, _)
Pick(s, ix, i) ==
  IF i > Len(s) THEN << >>
  ELSE (IF i \in ix THEN << s[i] >> ELSE << >>) \o Pick(s, ix, i + 1)

-----------------------------------------------------------------------------
(* The parsed SDL syntax tree (graphql-js AST), as far as the filters read it *)

NoName == "<none>"

NamedType(n) == [ kind |-> "NamedType", name |-> n ]
ListType(t) == [ kind |-> "ListType", type |-> t ]
NonNullType(t) == [ kind |-> "NonNullType", type |-> t ]

\* an argument of a field: InputValueDefinition
Argument(t, ds) == [ type |-> t, directives |-> ds ]

\* FieldDefinition (or the InputValueDefinition of an input type's field)
Field(t, as, ds) == [ type |-> t, arguments |-> as, directives |-> ds ]

\* EnumValueDefinition
EnumValue(ds) == [ directives |-> ds ]

\* a top-level definition; name.value is written name, each directive and each
\* interface is written as its name.value
Definition(k, n, ds, is, fs, ts, vs) ==
  [ kind |-> k, name |-> n, directives |-> ds, interfaces |-> is, fields |-> fs,
    types |-> ts, values |-> vs ]

isBuiltInType(typeName) ==
  \/ typeName = "String"
  \/ typeName = "Int"
  \/ typeName = "Float"
  \/ typeName = "Boolean"
  \/ typeName = "ID"

extensionType(definition) ==
  \/ definition.kind = "ObjectTypeExtension"
  \/ definition.kind = "UnionTypeExtension"
  \/ definition.kind = "InterfaceTypeExtension"
  \/ definition.kind = "ScalarTypeExtension"
  \/ definition.kind = "InputObjectTypeExtension"
  \/ definition.kind = "EnumTypeExtension"

\* drills into NonNull and List wrappers down to the name of the named type
RECURSIVE unwrapType(_)
unwrapType(type) ==
  IF type.kind = "NonNullType" \/ type.kind = "ListType" THEN unwrapType(type.type)
  ELSE type.name

unwrapTypeNameFrom(node) == unwrapType(node.type)


-----------------------------------------------------------------------------
(* The definitions the documents of the model are made of.  Names: the     *)
(* types A, B, C and the directive d; String is a built-in scalar.         *)

\* type A { f: B }
ObjA == Definition("ObjectTypeDefinition", "A", << >>, << >>,
          << Field(NamedType("B"), << >>, << >>) >>, << >>, << >>)

\* type A @d { f: String }
ObjAd == Definition("ObjectTypeDefinition", "A", << "d" >>, << >>,
          << Field(NamedType("String"), << >>, << >>) >>, << >>, << >>)

\* extend type A { f: A }
ExtA == Definition("ObjectTypeExtension", "A", << >>, << >>,
          << Field(NamedType("A"), << >>, << >>) >>, << >>, << >>)

\* type B implements C { g(x: [A!]!): String }
ObjB == Definition("ObjectTypeDefinition", "B", << >>, << "C" >>,
          << Field(NamedType("String"),
                   << Argument(NonNullType(ListType(NonNullType(NamedType("A")))), << >>) >>,
                   << >>) >>, << >>, << >>)

\* union B = A | String
UnionB == Definition("UnionTypeDefinition", "B", << >>, << >>, << >>,
          << "A", "String" >>, << >>)

\* input B { x: Int }
InputB == Definition("InputObjectTypeDefinition", "B", << >>, << >>,
          << Field(NamedType("Int"), << >>, << >>) >>, << >>, << >>)

\* extend type B implements C { k: Int }
ExtB == Definition("ObjectTypeExtension", "B", << >>, << "C" >>,
          << Field(NamedType("Int"), << >>, << >>) >>, << >>, << >>)

\* extend input B { f: C @d }
ExtInputB == Definition("InputObjectTypeExtension", "B", << >>, << >>,
          << Field(NamedType("C"), << >>, << "d" >>) >>, << >>, << >>)

\* interface C { h: String @d }
IfaceC == Definition("InterfaceTypeDefinition", "C", << >>, << >>,
          << Field(NamedType("String"), << >>, << "d" >>) >>, << >>, << >>)

\* scalar C
ScalarC == Definition("ScalarTypeDefinition", "C", << >>, << >>, << >>, << >>, << >>)

\* enum C { V @d }
EnumC == Definition("EnumTypeDefinition", "C", << >>, << >>, << >>, << >>,
          << EnumValue(<< "d" >>) >>)

\* extend interface C { f: [A] }
ExtC == Definition("InterfaceTypeExtension", "C", << >>, << >>,
          << Field(ListType(NamedType("A")), << >>, << >>) >>, << >>, << >>)

\* directive @d on OBJECT | FIELD_DEFINITION | ENUM_VALUE (a DirectiveDefinition
\* node has no directives of its own)
DirD == Definition("DirectiveDefinition", "d", << >>, << >>, << >>, << >>, << >>)

\* schema { query: A }
SchemaDef == Definition("SchemaDefinition", NoName, << >>, << >>, << >>, << >>, << >>)

Universe == << ObjA, ObjAd, ExtA, ObjB, UnionB, InputB, ExtB, ExtInputB, IfaceC,
               ScalarC, EnumC, ExtC, DirD, SchemaDef >>

\* the names a call may ask for: the names of the universe, and a name that
\* every plain object inherits a property of
TypeNames == { "A", "B", "C", "d", "constructor" }

\* the maps of both filters are plain objects ({}), whose lookup by a name finds
\* the property of that name on Object.prototype when the map has no entry of
\* its own; no definition of the universe has such a name
inherited(typeName) ==
  typeName \in { "constructor", "toString", "toLocaleString", "valueOf",
                 "hasOwnProperty", "isPrototypeOf", "propertyIsEnumerable", "__proto__" }

\* the documents a filter is called with on its own: at most MaxDefs definitions
\* of the universe, in the order of the universe
Documents ==
  { Pick(Universe, ix, 1) :
      ix \in { s \in SUBSET (1..Len(Universe)) : Cardinality(s) <= MaxDefs } }

\* the lists of requested names of a filter call made on its own
TypeLists == SeqsUpTo(TypeNames, MaxTypes)

-----------------------------------------------------------------------------
(* Dependencies of one definition: the helpers both filters share *)

addArgumentTypes(field) ==
  Filter(LAMBDA argType : ~isBuiltInType(argType),
         Map(unwrapTypeNameFrom, field.arguments))

\* per field: its argument types, then its own type, then its directives
addFieldTypesOf(field) ==
  addArgumentTypes(field)
    \o (IF ~isBuiltInType(unwrapTypeNameFrom(field))
          THEN << unwrapTypeNameFrom(field) >> ELSE << >>)
    \o field.directives

addFieldTypes(node) == Flatten(Map(addFieldTypesOf, node.fields))

-----------------------------------------------------------------------------
(* The two-argument filter(document, types) of the filter instance that    *)
(* keeps this._visited: its type map, its work-list loop and its pruning   *)

\* the names a node adds to typeInterface[ifaceName]
implementersIn(node, ifaceName) ==
  IF node.name # NoName
       /\ (node.kind = "ObjectTypeDefinition" \/ node.kind = "ObjectTypeExtension")
    THEN Map(LAMBDA iface : node.name,
             Filter(LAMBDA iface : iface = ifaceName, node.interfaces))
    ELSE << >>

\* getTypeMapFor(document).types: the named definitions that are no extensions
typeMapTypes(defs) ==
  Filter(LAMBDA node : node.name # NoName /\ ~extensionType(node), defs)

\* typeMap.types[typeName] is defined
hasType(defs, typeName) ==
  \E node \in Range(typeMapTypes(defs)) : node.name = typeName

\* typeMap.types[typeName]: a later definition of the name overwrites an earlier one
typeOf(defs, typeName) ==
  Last(Filter(LAMBDA node : node.name = typeName, typeMapTypes(defs)))

\* typeMap.typeExtensions[typeName] || []
typeExtensionsOf(defs, typeName) ==
  Filter(LAMBDA node : node.name = typeName /\ extensionType(node), defs)

\* typeMap.typeInterface[typeName] || []
typeInterfaceOf(defs, typeName) ==
  Flatten(Map(LAMBDA node : implementersIn(node, typeName), defs))

addTransitiveTypes2(definition) ==
  IF definition.kind = "InterfaceTypeDefinition"
       \/ definition.kind = "InterfaceTypeExtension"
    THEN addFieldTypes(definition)
  ELSE IF definition.kind = "ObjectTypeDefinition"
       \/ definition.kind = "ObjectTypeExtension"
       \/ definition.kind = "InputObjectTypeDefinition"
    THEN definition.directives
           \o (IF definition.kind # "InputObjectTypeDefinition"
                 THEN definition.interfaces ELSE << >>)
           \o addFieldTypes(definition)
  ELSE IF definition.kind = "UnionTypeDefinition"
       \/ definition.kind = "UnionTypeExtension"
    THEN definition.types
  ELSE << >>

\* a JavaScript string used as a condition
Truthy(str) == str # ""

\* the condition under which the implementations of a definition are visited:
\* definition.kind === Kind.INTERFACE_TYPE_DEFINITION || Kind.INTERFACE_TYPE_EXTENSION
visitsImplementations2(definition) ==
  definition.kind = "InterfaceTypeDefinition" \/ Truthy("InterfaceTypeExtension")

\* what one turn of the first pass pushes for the popped name
pushed2(defs, seen, typeName) ==
  IF hasType(defs, typeName)
    THEN IF typeName \notin seen
           THEN addTransitiveTypes2(typeOf(defs, typeName))
                  \o (IF visitsImplementations2(typeOf(defs, typeName))
                        THEN typeInterfaceOf(defs, typeName) ELSE << >>)
           ELSE << >>
    ELSE Flatten(Map(addTransitiveTypes2, typeExtensionsOf(defs, typeName)))

\* the kinds the second pass prunes by name
prunable(node) ==
  \/ node.kind = "ObjectTypeDefinition"
  \/ node.kind = "UnionTypeDefinition"
  \/ node.kind = "EnumTypeDefinition"
  \/ node.kind = "ScalarTypeDefinition"
  \/ node.kind = "DirectiveDefinition"
  \/ node.kind = "InputObjectTypeDefinition"
  \/ node.kind = "InterfaceTypeDefinition"
  \/ extensionType(node)

\* second pass: the document without the prunable nodes that are no dependencies
prune2(defs, deps) ==
  Filter(LAMBDA node : ~(prunable(node) /\ node.name \notin deps), defs)

\* a set-up that forgets the requested names
filter2EnterMutant(doc, requested) ==
  /\ odd' = FALSE
  /\ document' = doc
  /\ types' = requested
  /\ dependencies' = {}
  /\ visiting' = << >>

\* filter(document, types) up to its loop: dependencies and visiting are set up
filter2Enter(doc, requested) ==
  /\ odd' = FALSE
  /\ document' = doc
  /\ types' = requested
  /\ dependencies' = Range(requested)
  /\ visiting' = requested

\* whether the turn throws: types[typeName] and typeInterface[typeName] are then
\* the inherited property, which is truthy, has no kind and no directives, and
\* is not iterable, so that "for (const impl of implementations)" throws
filter2Throws(typeName) == inherited(typeName)

\* one turn of "while (visiting.length > 0)" that returns to the loop
filter2Turn ==
  /\ visiting # << >>
  /\ ~filter2Throws(Last(visiting))
  /\ odd' = ~odd
  /\ dependencies' = dependencies \cup { Last(visiting) }
  /\ visiting' = Front(visiting) \o pushed2(document, _visited, Last(visiting))
  /\ _visited' = IF hasType(document, Last(visiting))
                   THEN _visited \cup { Last(visiting) } ELSE _visited

-----------------------------------------------------------------------------
(* The TypeMap-based filter(document, otherDependencies, types): the class *)
(* TypeMap, the work-list loop and the second pass that builds the result  *)

isTypeDefinition(type) ==
  type.kind \in { "ObjectTypeDefinition", "UnionTypeDefinition", "EnumTypeDefinition",
                  "ScalarTypeDefinition", "DirectiveDefinition",
                  "InputObjectTypeDefinition", "InterfaceTypeDefinition" }

\* the nodes addType puts into _types: no schema node, no extension
typeMapDefinitions(defs) ==
  Filter(LAMBDA type : /\ type.kind # "SchemaDefinition"
                       /\ type.kind # "SchemaExtension"
                       /\ ~extensionType(type)
                       /\ isTypeDefinition(type), defs)

\* getType(typeName) is defined
hasDefinition(defs, typeName) ==
  \E type \in Range(typeMapDefinitions(defs)) : type.name = typeName

\* getType(typeName): _types[name] = type overwrites an earlier definition
getType(defs, typeName) ==
  Last(Filter(LAMBDA type : type.name = typeName, typeMapDefinitions(defs)))

getTypeExtensions(defs, typeName) ==
  Filter(LAMBDA type : /\ type.kind # "SchemaDefinition"
                       /\ type.kind # "SchemaExtension"
                       /\ extensionType(type)
                       /\ type.name = typeName, defs)

\* what addInterfacesFor(type) adds to _interfaceImplementations[interfaceName]
addInterfacesFor(type, interfaceName) ==
  IF type.kind = "ObjectTypeDefinition" \/ type.kind = "ObjectTypeExtension"
    THEN Map(LAMBDA iface : type.name,
             Filter(LAMBDA iface : iface = interfaceName, type.interfaces))
    ELSE << >>

getImplementationsOf(defs, interfaceName) ==
  Flatten(Map(LAMBDA type : addInterfacesFor(type, interfaceName), defs))

\* new TypeMap(): its maps are plain objects, _schema is undefined (no node)
NoTypeMap ==
  [ _types |-> << >>, _typeExtensions |-> << >>, _interfaceImplementations |-> << >>,
    _schema |-> << >>, _schemaExtensions |-> << >> ]

\* addType(type) of a TypeMap
addType(typeMap, type) ==
  IF type.kind = "SchemaDefinition"
    THEN [ typeMap EXCEPT !._schema = << type >> ]
  ELSE IF type.kind = "SchemaExtension"
    THEN [ typeMap EXCEPT !._schemaExtensions = Append(@, type) ]
  ELSE
    [ typeMap EXCEPT
        !._interfaceImplementations =
          [ ifaceName \in DOMAIN @ \cup
                (IF type.kind = "ObjectTypeDefinition" \/ type.kind = "ObjectTypeExtension"
                   THEN Range(type.interfaces) ELSE {}) |->
              (IF ifaceName \in DOMAIN @ THEN @[ifaceName] ELSE << >>)
                \o addInterfacesFor(type, ifaceName) ],
        !._typeExtensions =
          IF extensionType(type)
            THEN [ name \in DOMAIN @ \cup { type.name } |->
                     IF name = type.name
                       THEN (IF name \in DOMAIN @ THEN @[name] ELSE << >>) \o << type >>
                       ELSE @[name] ]
            ELSE @,
        !._types =
          IF ~extensionType(type) /\ isTypeDefinition(type)
            THEN [ name \in DOMAIN @ \cup { type.name } |->
                     IF name = type.name THEN type ELSE @[name] ]
            ELSE @ ]

\* the constructor's loop "for (const definition of definitions)"
RECURSIVE addTypes(_, _)
addTypes(typeMap, defs) ==
  IF defs = << >> THEN typeMap
  ELSE addTypes(addType(typeMap, Head(defs)), Tail(defs))

\* a TypeMap that takes the definitions from the last to the first
TypeMapMutant(defs) ==
  addTypes(NoTypeMap, [ i \in 1..Len(defs) |-> defs[Len(defs) + 1 - i] ])

\* new TypeMap(definitions)
TypeMap(defs) == addTypes(NoTypeMap, defs)

\* this._typeMaps.has(document): a WeakMap is keyed by the object
typeMapsHas(typeMaps, doc) == doc.object \in DOMAIN typeMaps

\* this._typeMaps after getTypeMapFor(document)
getTypeMapFor(typeMaps, doc) ==
  IF typeMapsHas(typeMaps, doc) THEN typeMaps
  ELSE [ object \in DOMAIN typeMaps \cup { doc.object } |->
           IF object = doc.object THEN TypeMap(doc.definitions) ELSE typeMaps[object] ]

\* the object literal that filter builds in a call: a new object, here numbered
\* by the call
mergedDocument(call, other, defs) ==
  [ object |-> call, definitions |-> other \o defs ]

addTransitiveTypes(definition) ==
  definition.directives
    \o (IF definition.kind = "InterfaceTypeDefinition"
             \/ definition.kind = "InterfaceTypeExtension"
          THEN addFieldTypes(definition)
        ELSE IF definition.kind = "ObjectTypeDefinition"
             \/ definition.kind = "ObjectTypeExtension"
             \/ definition.kind = "InputObjectTypeDefinition"
          THEN (IF definition.kind # "InputObjectTypeDefinition"
                  THEN definition.interfaces ELSE << >>)
                 \o addFieldTypes(definition)
        ELSE IF definition.kind = "UnionTypeDefinition"
             \/ definition.kind = "UnionTypeExtension"
          THEN definition.types
        ELSE IF definition.kind = "EnumTypeDefinition"
             \/ definition.kind = "EnumTypeExtension"
          THEN Flatten(Map(LAMBDA value : value.directives, definition.values))
        ELSE << >>)

\* mergedDocument.definitions
merged(other, defs) == other \o defs

\* what one turn of the first pass pushes for the popped name
pushed(defs, seen, typeName) ==
  (IF hasDefinition(defs, typeName) /\ typeName \notin Range(seen)
     THEN addTransitiveTypes(getType(defs, typeName))
            \o (IF getType(defs, typeName).kind = "InterfaceTypeDefinition"
                     \/ getType(defs, typeName).kind = "InterfaceTypeExtension"
                  THEN getImplementationsOf(defs, typeName) ELSE << >>)
     ELSE << >>)
    \o Flatten(Map(addTransitiveTypes, getTypeExtensions(defs, typeName)))

\* visited.add(typeName) on a Set that keeps insertion order
added(seen, typeName) ==
  IF typeName \in Range(seen) THEN seen ELSE Append(seen, typeName)

\* a work list that is the array of the caller: what it holds after a turn is
\* what the caller's array holds
typesAfterPopMutant(requested, work) == work

\* const visiting = [...types]: the work list is a copy, so that a turn of the
\* loop leaves the array of the caller as it is
typesAfterPop(requested, work) == requested

\* whether the turn throws: getType(typeName) and getTypeExtensions(typeName)
\* are then the inherited property, which is truthy, has no kind and no
\* directives, and is not iterable, so that "for (const extension of
\* typeExtensions)" throws
filterThrows(typeName) == inherited(typeName)

\* one turn of "while (visiting.length > 0)" that returns to the loop
filterTurn ==
  /\ visiting # << >>
  /\ ~filterThrows(Last(visiting))
  /\ odd' = ~odd
  /\ visiting' = Front(visiting)
       \o pushed(merged(otherDependencies, document), fvisited, Last(visiting))
  /\ fvisited' = IF hasDefinition(merged(otherDependencies, document), Last(visiting))
                   THEN added(fvisited, Last(visiting)) ELSE fvisited

\* a second pass that puts the extensions of a name before its definition
toAddMutant(defs, typeName) ==
  getTypeExtensions(defs, typeName)
    \o (IF hasDefinition(defs, typeName) THEN << getType(defs, typeName) >> ELSE << >>)

\* what the second pass adds for one visited name: the definition, then the
\* extensions of the name (before it when there is no definition)
toAdd(defs, typeName) ==
  IF hasDefinition(defs, typeName)
    THEN << getType(defs, typeName) >> \o getTypeExtensions(defs, typeName)
    ELSE Flatten(Map(LAMBDA i : << getTypeExtensions(defs, typeName)[i] >>,
                     [ i \in 1..Len(getTypeExtensions(defs, typeName)) |->
                         Len(getTypeExtensions(defs, typeName)) + 1 - i ]))

\* second pass: for each visited name in insertion order, unshift what it adds,
\* unless its kind and name were added before
RECURSIVE secondPass(_, _, _, _)
secondPass(defs, seen, done, newDefinitions) ==
  IF seen = << >> THEN newDefinitions
  ELSE IF hasDefinition(defs, Head(seen))
            /\ << getType(defs, Head(seen)).kind, Head(seen) >> \in done
    THEN secondPass(defs, Tail(seen), done, newDefinitions)
  ELSE secondPass(defs, Tail(seen),
                  IF hasDefinition(defs, Head(seen))
                    THEN done \cup { << getType(defs, Head(seen)).kind, Head(seen) >> }
                    ELSE done,
                  toAdd(defs, Head(seen)) \o newDefinitions)

-----------------------------------------------------------------------------
(* File paths (a path is the list of its segments, an absolute one starts  *)
(* with "/") and the import lines of a file                                *)

isAbsolute(p) == p # << >> /\ Head(p) = "/"

dirname(p) == Front(p)

\* drops "." segments and resolves ".." against the segment before it
RECURSIVE normalize(_, _)
normalize(done, rest) ==
  IF rest = << >> THEN done
  ELSE IF Head(rest) = "." THEN normalize(done, Tail(rest))
  ELSE IF Head(rest) = ".." THEN
    normalize(IF Len(done) > 1 THEN Front(done) ELSE done, Tail(rest))
  ELSE normalize(Append(done, Head(rest)), Tail(rest))

\* path.resolve(basePath, specifiedPath) for an absolute basePath
resolve(basePath, specifiedPath) ==
  IF isAbsolute(specifiedPath) THEN normalize(<< >>, specifiedPath)
  ELSE normalize(<< >>, basePath \o specifiedPath)

\* a trimmed line of a file: how it starts, then the comma-separated list, the
\* word "from", and the path between two quote characters
Line(start, list, from, open, path, close) ==
  [ start |-> start, list |-> list, from |-> from, open |-> open, path |-> path,
    close |-> close ]

\* line.startsWith('# import') || line.startsWith('#import')
startsWithImport(line) == line.start = "# import" \/ line.start = "#import"

isQuote(c) == c = "\"" \/ c = "'"

\* /(.+) from ["'](.+)["']/ matches the text after the import marker
matchesImport(line) ==
  /\ line.list # << >>
  /\ line.from
  /\ isQuote(line.open)
  /\ line.path # << >>
  /\ isQuote(line.close)

\* a parse that never throws
importSyntaxErrorMutant(fileContents) == FALSE

\* parseImportStatements throws 'Incorrect import syntax'
importSyntaxError(fileContents) ==
  \E i \in 1..Len(fileContents) :
    startsWithImport(fileContents[i]) /\ ~matchesImport(fileContents[i])

importStatement(filePath, line) ==
  [ types |-> line.list,
    fileName |-> IF isAbsolute(line.path) THEN line.path
                 ELSE resolve(dirname(filePath), line.path) ]

\* parseImportStatements(filePath, fileContents) when it does not throw
parseImportStatements(filePath, fileContents) ==
  Map(LAMBDA line : importStatement(filePath, line),
      Filter(startsWithImport, fileContents))

FileA == << "/", "s", "a.graphql" >>
FileB == << "/", "s", "b.graphql" >>
FileC == << "/", "s", "c.graphql" >>
\* a path no file is stored under
FileM == << "/", "s", "m.graphql" >>

Files == { FileA, FileB, FileC }

\* # import A from "./b.graphql"
LineAb == Line("# import", << "A" >>, TRUE, "\"", << ".", "b.graphql" >>, "\"")
\* #import B, C from './c.graphql'
LineBCc == Line("#import", << "B", "C" >>, TRUE, "'", << ".", "c.graphql" >>, "'")
\* # import A from "/s/c.graphql"
LineAc == Line("# import", << "A" >>, TRUE, "\"", FileC, "\"")
\* #import C from "../s/b.graphql"
LineCb == Line("#import", << "C" >>, TRUE, "\"", << "..", "s", "b.graphql" >>, "\"")
\* # import B, C from "./a.graphql"
LineBCa == Line("# import", << "B", "C" >>, TRUE, "\"", << ".", "a.graphql" >>, "\"")
\* # import A from "./m.graphql"
LineAm == Line("# import", << "A" >>, TRUE, "\"", << ".", "m.graphql" >>, "\"")
\* # import A "./b.graphql"
LineBad == Line("# import", << "A" >>, FALSE, "\"", << ".", "b.graphql" >>, "\"")
\* # a comment
LineComment == Line("#", << >>, FALSE, "", << >>, "")

Lines == { LineAb, LineBCc, LineAc, LineCb, LineBCa, LineAm, LineBad, LineComment }

\* the SDL of the entry file: schema { query: A }  type A { f: B }
EntryDocument == << SchemaDef, ObjA >>

\* the SDL an imported file may hold
ImportedDocuments ==
  { << ObjA, UnionB, ScalarC, DirD >>,
    << ObjAd, ExtA, ObjB, ScalarC, DirD >> }

isWhitespace(c) == c = " " \/ c = "\n"

RECURSIVE trimStart(_)
trimStart(text) ==
  IF text # << >> /\ isWhitespace(Head(text)) THEN trimStart(Tail(text)) ELSE text

RECURSIVE trimEnd(_)
trimEnd(text) ==
  IF text # << >> /\ isWhitespace(Last(text)) THEN trimEnd(Front(text)) ELSE text

\* a trim that leaves the text as it is
trimMutant(text) == text

\* String.prototype.trim, a text being the list of its characters
trim(text) == trimEnd(trimStart(text))

\* the text of a file: white space, the lines before the SDL, the SDL (as the
\* definitions it parses to), white space
Contents(head, lines, defs, tail) ==
  [ head |-> head, lines |-> lines, definitions |-> defs, tail |-> tail ]

\* a trim that leaves the text of a file as it is
trimContentsMutant(contents) == contents

\* contents.toString().trim() of such a text: its lines and its SDL begin and
\* end with characters that are not white space
trimContents(contents) ==
  [ contents EXCEPT !.head = trimStart(@), !.tail = trimEnd(@) ]

\* the storage in which the lines ls are dealt out to the files: the first i to
\* the entry file, the lines up to the j-th to b, the rest to c; the entry file
\* ends with a newline, b begins with a blank line and ends with a newline
Storage(ls, i, j, docB, docC) ==
  (FileA :> Contents(<< >>, SubSeq(ls, 1, i), EntryDocument, << "\n" >>))
    @@ (FileB :> Contents(<< " ", "\n" >>, SubSeq(ls, i + 1, j), docB, << "\n" >>))
    @@ (FileC :> Contents(<< >>, SubSeq(ls, j + 1, Len(ls)), docC, << >>))

\* the storages of the model: the three files exist and hold at most
\* MaxImportLines lines together
Stores ==
  { Storage(c[1], c[2], c[3], c[4], c[5]) :
      c \in { c \in SeqsUpTo(Lines, MaxImportLines) \X (0..MaxImportLines)
                      \X (0..MaxImportLines) \X ImportedDocuments \X ImportedDocuments :
                c[2] <= c[3] /\ c[3] <= Len(c[1]) } }

-----------------------------------------------------------------------------
(* The caches: CachedFileLoader and CachedGraphqlParser *)

\* a cache that never finds a path
cacheHasMutant(cache, absolutePath) == FALSE

\* this._cache.has(absolutePath)
cacheHas(cache, absolutePath) == absolutePath \in DOMAIN cache

\* this._cache.set(absolutePath, contents)
cacheSet(cache, absolutePath, contents) ==
  [ q \in DOMAIN cache \cup { absolutePath } |->
      IF q = absolutePath THEN contents ELSE cache[q] ]

\* what loadFile(path) of the file loader returns when at most one call runs at
\* a time and storage holds a file at the path or the cache holds the path
loadedContents(cache, storage, absolutePath) ==
  IF cacheHas(cache, absolutePath) THEN cache[absolutePath]
  ELSE trimContents(storage[absolutePath])

\* the cache that call leaves
cacheAfterLoad(cache, storage, absolutePath) ==
  IF cacheHas(cache, absolutePath) THEN cache
  ELSE cacheSet(cache, absolutePath, trimContents(storage[absolutePath]))

\* a parser cache that never finds a path
parserHasMutant(cache, filePath) == FALSE

\* this._cache.has(filePath) of the parser
parserHas(cache, filePath) == filePath \in DOMAIN cache

\* text that is not SDL
NotSDL == Definition("<syntax error>", NoName, << >>, << >>, << >>, << >>, << >>)

\* whether graphql.parse(contents) returns; it throws on text that is not SDL
isSDL(contents) == \A i \in 1..Len(contents.definitions) : contents.definitions[i] # NotSDL

\* the Document object graphql.parse(contents) builds: each call builds a new
\* object, told from every other by the number of the call
Document(number, contents) == [ object |-> number, definitions |-> contents.definitions ]

\* no Document object: the call threw
NoDocument == [ object |-> 0, definitions |-> << >> ]

\* a parser that does not keep the Document object
parserSetMutant(cache, filePath, doc) == cache

\* this._cache.set(filePath, document) of the parser, doc being the document
parserSet(cache, filePath, doc) ==
  [ q \in DOMAIN cache \cup { filePath } |->
      IF q = filePath THEN doc ELSE cache[q] ]

\* the record of a parse call that ended: its arguments, whether it returned (or
\* threw), whether it called graphql.parse, and the Document object it returned
Parsed(filePath, contents, result) ==
  [ filePath |-> filePath, contents |-> contents, ok |-> result.ok,
    parsed |-> result.parsed, document |-> result.document ]

\* parse(filePath, contents) on the parser whose cache is cache, after count
\* objects were built: whether it returned, whether it called graphql.parse,
\* the document it returned and the cache it left
parse(cache, count, filePath, contents) ==
  IF parserHas(cache, filePath)
    THEN [ ok |-> TRUE, parsed |-> FALSE, document |-> cache[filePath], cache |-> cache ]
  ELSE IF ~isSDL(contents)
    THEN [ ok |-> FALSE, parsed |-> TRUE, document |-> NoDocument, cache |-> cache ]
  ELSE [ ok |-> TRUE, parsed |-> TRUE, document |-> Document(count + 1, contents),
         cache |-> parserSet(cache, filePath, Document(count + 1, contents)) ]

-----------------------------------------------------------------------------
(* GraphQLFileLoader: buildImportDependencyTreeFrom and loadFile *)

\* the entries of the Map imports: [fileName, types] in insertion order
hasKey(map, key) == \E i \in 1..Len(map) : map[i].fileName = key

get(map, key) == (CHOOSE e \in Range(map) : e.fileName = key).types

keys(map) == { map[i].fileName : i \in 1..Len(map) }

\* an import that sets the list of the file anew: imports.set(fileName, types)
addImportMutant(map, statement) ==
  IF hasKey(map, statement.fileName)
    THEN [ i \in 1..Len(map) |->
             IF map[i].fileName = statement.fileName
               THEN [ map[i] EXCEPT !.types = statement.types ]
               ELSE map[i] ]
    ELSE Append(map, [ fileName |-> statement.fileName, types |-> statement.types ])

\* if (!imports.has(fileName)) imports.set(fileName, []);
\* imports.get(fileName).push(...types)
addImport(map, statement) ==
  IF hasKey(map, statement.fileName)
    THEN [ i \in 1..Len(map) |->
             IF map[i].fileName = statement.fileName
               THEN [ map[i] EXCEPT !.types = @ \o statement.types ]
               ELSE map[i] ]
    ELSE Append(map, [ fileName |-> statement.fileName, types |-> statement.types ])

RECURSIVE addImports(_, _)
addImports(map, statements) ==
  IF statements = << >> THEN map
  ELSE addImports(addImport(map, Head(statements)), Tail(statements))

\* a graph that starts with an empty list for the entry file
rootImportsMutant(entry) == << [ fileName |-> entry, types |-> << >> ] >>

\* imports.set(fileName, ['*'])
rootImports(entry) == << [ fileName |-> entry, types |-> << "*" >> ] >>

\* a pop that reads the top of the stack and leaves it there
poppedMutant(stack) == stack

\* files.pop(): the stack without its top
popped(stack) == Front(stack)

\* a visited check that never finds the file
hasMutant(set, file) == FALSE

\* visited.has(file)
has(set, file) == file \in set

\* a wildcard test that takes the list for the wildcard alone
includesWildcardMutant(list) == list = << "*" >>

\* types.includes('*')
includesWildcard(list) == "*" \in Range(list)

\* the definitions of a file as they stand in the merged list
tagged(file, defs) == [ i \in 1..Len(defs) |-> [ file |-> file, node |-> defs[i] ] ]

\* what a call of loadFile returned: nothing yet, or the print of a document
NoOutput == [ returned |-> FALSE, definitions |-> << >> ]

Returned(defs) == [ returned |-> TRUE, definitions |-> defs ]

\* an empty content cache; the file loader on its own takes no part
cacheIdle ==
  /\ _cache = << >>
  /\ disk = << >>
  /\ pending = << >>
  /\ log = << >>
  /\ writes = 0

\* an empty parser cache; the parser on its own takes no part
parserIdle ==
  /\ _graphqlCache = << >>
  /\ parses = 0
  /\ parseLog = << >>

\* no TypeMap was built; the TypeMap cache on its own takes no part
typeMapIdle ==
  /\ _typeMaps = << >>
  /\ constructed = 0

\* one call of loadFile at a time, and none has returned
loadsIdle ==
  /\ waiting = << >>
  /\ returns = << >>

\* a fresh loader and filter instance, and a storage
freshInstance ==
  /\ store \in Stores
  /\ pc = "idle"
  /\ files = << >>
  /\ visited = {}
  /\ imports = << >>
  /\ entries = << >>
  /\ definitions = << >>
  /\ output = NoOutput
  /\ scans = [ f \in Files \cup { FileM } |-> 0 ]
  /\ passes = [ f \in Files \cup { FileM } |-> 0 ]
  /\ document = << >>
  /\ otherDependencies = << >>
  /\ types = << >>
  /\ visiting = << >>
  /\ dependencies = {}
  /\ _visited = {}
  /\ fvisited = << >>
  /\ pruned = << >>
  /\ odd = FALSE
  /\ fileName = << >>
  /\ cacheIdle
  /\ parserIdle
  /\ typeMapIdle

\* one call of loadFile on a fresh instance
Init ==
  /\ freshInstance
  /\ loadsIdle

filterVars == << document, types, visiting, dependencies, _visited, odd >>

\* a return of the text without the lines before the SDL
ReturnedTextMutant(contents) ==
  [ returned |-> TRUE, text |-> [ contents EXCEPT !.lines = << >> ] ]

\* what a call of loadFile with skipGraphQLImport returned: the text the file
\* loader gave it
ReturnedText(contents) == [ returned |-> TRUE, text |-> contents ]

\* loadFile(cwd, filePath, { skipGraphQLImport }) for the entry file: up to its
\* return if the option is set, else up to the loop of
\* buildImportDependencyTreeFrom
loadFileWith(skipGraphQLImport) ==
  /\ pc = "idle"
  /\ IF skipGraphQLImport
       THEN /\ pc' = "skipped"
            /\ _cache' = cacheAfterLoad(_cache, store, FileA)
            /\ output' = ReturnedText(loadedContents(_cache, store, FileA))
            /\ returns' = Append(returns, output')
            /\ UNCHANGED << files, visited, imports >>
       ELSE /\ pc' = "build"
            /\ files' = << FileA >>
            /\ visited' = {}
            /\ imports' = rootImports(FileA)
            /\ UNCHANGED << _cache, output, returns >>
  /\ UNCHANGED << store, entries, definitions, scans, passes, fileName,
                  filterVars, otherDependencies, fvisited, pruned >>
  /\ UNCHANGED << disk, pending, log, writes >>
  /\ UNCHANGED parserVars
  /\ UNCHANGED typeMapVars
  /\ UNCHANGED waiting

\* loadFile(cwd, filePath): the option is left to its default
LoadFile == loadFileWith(FALSE)

\* a turn that does not push the file of the first import line
pushedFilesMutant(statements) ==
  Map(LAMBDA st : st.fileName, SubSeq(statements, 2, Len(statements)))

\* files.push(fileName) for every import statement of the file
pushedFiles(statements) == Map(LAMBDA st : st.fileName, statements)

\* one turn of "while (files.length > 0)"
BuildTree ==
  /\ pc = "build"
  /\ files # << >>
  /\ LET file == Last(files) IN
       IF has(visited, file)
         THEN /\ files' = popped(files)
              /\ UNCHANGED << pc, visited, imports, scans, _cache >>
       ELSE IF ~cacheHas(_cache, file) /\ file \notin DOMAIN store
         \* fs.readFile rejects
         THEN /\ pc' = "error"
              /\ files' = popped(files)
              /\ visited' = visited \cup { file }
              /\ UNCHANGED << imports, scans, _cache >>
       ELSE LET fileContents == loadedContents(_cache, store, file) IN
         /\ _cache' = cacheAfterLoad(_cache, store, file)
         /\ IF importSyntaxError(fileContents.lines)
              THEN /\ pc' = "error"
                   /\ files' = popped(files)
                   /\ visited' = visited \cup { file }
                   /\ scans' = [ scans EXCEPT ![file] = @ + 1 ]
                   /\ UNCHANGED imports
              ELSE LET statements == parseImportStatements(file, fileContents.lines) IN
                     /\ files' = popped(files) \o pushedFiles(statements)
                     /\ visited' = visited \cup { file }
                     /\ imports' = addImports(imports, statements)
                     /\ scans' = [ scans EXCEPT ![file] = @ + 1 ]
                     /\ UNCHANGED pc
  /\ UNCHANGED << store, entries, definitions, output, passes, fileName,
                  filterVars, otherDependencies, fvisited, pruned >>
  /\ UNCHANGED << disk, pending, log, writes >>
  /\ UNCHANGED parserVars
  /\ UNCHANGED typeMapVars
  /\ UNCHANGED loadsVars

\* a traversal that may return while files are left on the stack
traversalOverMutant(stack) == TRUE

\* the exit of "while (files.length > 0)"
traversalOver(stack) == Len(stack) = 0

\* a copy that holds the entries of the Map in reverse
entriesOfMutant(map) == [ i \in 1..Len(map) |-> map[Len(map) + 1 - i] ]

\* [...imports.entries()]: the entries of the Map in insertion order
entriesOf(map) == map

\* "return imports", and in loadFile: const entries = [...imports.entries()]
BuildReturn ==
  /\ pc = "build"
  /\ traversalOver(files)
  /\ pc' = "merge"
  /\ entries' = entriesOf(imports)
  /\ UNCHANGED << store, files, visited, imports, definitions, output, scans, passes,
                  fileName, filterVars, otherDependencies, fvisited, pruned >>
  /\ UNCHANGED cacheVars
  /\ UNCHANGED parserVars
  /\ UNCHANGED typeMapVars
  /\ UNCHANGED loadsVars

\* one turn of "while (entries.length > 0)" up to the call of filter; the file
\* loader has the file from the traversal
Merge ==
  /\ pc = "merge"
  /\ entries # << >>
  /\ entries' = Front(entries)
  /\ passes' = [ passes EXCEPT ![Last(entries).fileName] = @ + 1 ]
  /\ LET file == loadedContents(_cache, store, Last(entries).fileName)
         result == parse(_graphqlCache, parses, Last(entries).fileName, file)
     IN
       /\ _cache' = cacheAfterLoad(_cache, store, Last(entries).fileName)
       /\ _graphqlCache' = result.cache
       /\ parses' = IF result.parsed THEN parses + 1 ELSE parses
       /\ parseLog' = Append(parseLog, Parsed(Last(entries).fileName, file, result))
       /\ IF includesWildcard(Last(entries).types)
            THEN /\ definitions' = definitions
                      \o tagged(Last(entries).fileName, result.document.definitions)
                 /\ UNCHANGED << pc, fileName, filterVars >>
            ELSE /\ pc' = "filter"
                 /\ fileName' = Last(entries).fileName
                 /\ filter2Enter(result.document.definitions, Last(entries).types)
                 /\ UNCHANGED << definitions, _visited >>
  /\ UNCHANGED << store, files, visited, imports, output, scans,
                  otherDependencies, fvisited, pruned >>
  /\ UNCHANGED << disk, pending, log, writes >>
  /\ UNCHANGED typeMapVars
  /\ UNCHANGED loadsVars

\* the first pass of the filter call of loadFile, one turn
FilterTurn ==
  /\ pc = "filter"
  /\ visiting # << >>
  /\ IF filter2Throws(Last(visiting))
       THEN /\ pc' = "error"
            /\ visiting' = Front(visiting)
            /\ dependencies' = dependencies \cup { Last(visiting) }
            /\ UNCHANGED << _visited, odd >>
       ELSE /\ filter2Turn
            /\ UNCHANGED pc
  /\ UNCHANGED << document, types, loaderVars, otherDependencies, fvisited, pruned >>
  /\ UNCHANGED cacheVars
  /\ UNCHANGED parserVars
  /\ UNCHANGED typeMapVars
  /\ UNCHANGED loadsVars

\* the second pass of the filter call, and definitions.push(...filteredDocument.definitions)
FilterReturn ==
  /\ pc = "filter"
  /\ visiting = << >>
  /\ pc' = "merge"
  /\ definitions' = definitions \o tagged(fileName, prune2(document, dependencies))
  /\ UNCHANGED << store, files, visited, imports, entries, output, scans, passes,
                  fileName, filterVars, otherDependencies, fvisited, pruned >>
  /\ UNCHANGED cacheVars
  /\ UNCHANGED parserVars
  /\ UNCHANGED typeMapVars
  /\ UNCHANGED loadsVars

\* return graphql.print({ kind: 'Document', definitions })
LoadFileReturn ==
  /\ pc = "merge"
  /\ entries = << >>
  /\ pc' = "done"
  /\ output' = Returned(definitions)
  /\ returns' = Append(returns, output')
  /\ UNCHANGED << store, files, visited, imports, entries, definitions, scans, passes,
                  fileName, filterVars, otherDependencies, fvisited, pruned >>
  /\ UNCHANGED cacheVars
  /\ UNCHANGED parserVars
  /\ UNCHANGED typeMapVars
  /\ UNCHANGED waiting

Next ==
  \/ LoadFile
  \/ BuildTree
  \/ BuildReturn
  \/ Merge
  \/ FilterTurn
  \/ FilterReturn
  \/ LoadFileReturn

Spec == Init /\ [][Next]_vars

\* a call of loadFile with or without the option
LoadFileOption == \E skipGraphQLImport \in BOOLEAN : loadFileWith(skipGraphQLImport)

OptionNext ==
  \/ LoadFileOption
  \/ BuildTree
  \/ BuildReturn
  \/ Merge
  \/ FilterTurn
  \/ FilterReturn
  \/ LoadFileReturn

\* the loads of Spec and the loads with skipGraphQLImport
OptionSpec == Init /\ [][OptionNext]_vars

\* the loader runs a call to its end: no step of it waits for anything but the
\* file reads, which complete
FairSpec == Spec /\ WF_vars(Next)

-----------------------------------------------------------------------------
(* Two calls of loadFile for the entry file on one loader instance: the    *)
(* second begins while the first waits at an await, as the calls that      *)
(* loadAllContent starts with Promise.all do, or after the first has ended *)

\* the local variables of a call of loadFile that is not running
Frame(at, stack, seen, map, copy, defs) ==
  [ pc |-> at, files |-> stack, visited |-> seen, imports |-> map, entries |-> copy,
    definitions |-> defs ]

\* a call that has not begun
NotStarted == Frame("idle", << >>, {}, << >>, << >>, << >>)

LoadsInit ==
  /\ freshInstance
  /\ waiting = << NotStarted >>
  /\ returns = << >>

\* the running call has reached an await (of this._fileLoader.loadFile in a turn
\* of either loop, or of buildImportDependencyTreeFrom) or has ended, and a call
\* that waits runs on; between two awaits a call runs without interruption, so
\* a call inside filter does not give way
Await ==
  /\ pc \in { "build", "merge", "done", "error" }
  /\ \E i \in DOMAIN waiting :
       /\ pc' = waiting[i].pc
       /\ files' = waiting[i].files
       /\ visited' = waiting[i].visited
       /\ imports' = waiting[i].imports
       /\ entries' = waiting[i].entries
       /\ definitions' = waiting[i].definitions
       /\ waiting' =
            IF pc \in { "done", "error" }
              THEN SubSeq(waiting, 1, i - 1) \o SubSeq(waiting, i + 1, Len(waiting))
              ELSE [ waiting EXCEPT
                       ![i] = Frame(pc, files, visited, imports, entries, definitions) ]
  /\ UNCHANGED << store, output, scans, passes, fileName, filterVars,
                  otherDependencies, fvisited, pruned, returns >>
  /\ UNCHANGED cacheVars
  /\ UNCHANGED parserVars
  /\ UNCHANGED typeMapVars

LoadsNext ==
  \/ Next
  \/ Await

LoadsSpec == LoadsInit /\ [][LoadsNext]_vars

-----------------------------------------------------------------------------
(* The two-argument filter called on its own, twice on one instance with   *)
(* the same document and the same names                                    *)

Calls == 2

\* the loader's variables take no part
loaderIdle ==
  /\ store = << >>
  /\ files = << >>
  /\ visited = {}
  /\ imports = << >>
  /\ entries = << >>
  /\ definitions = << >>
  /\ output = NoOutput
  /\ scans = << >>
  /\ passes = << >>
  /\ fileName = << >>

\* new DocumentDefinitionFilter(), a document and a list of names
FilterInit ==
  /\ loaderIdle
  /\ pc = "ready"
  /\ document \in Documents
  /\ types \in TypeLists
  /\ otherDependencies = << >>
  /\ visiting = << >>
  /\ dependencies = {}
  /\ _visited = {}
  /\ fvisited = << >>
  /\ pruned = << >>
  /\ odd = FALSE
  /\ cacheIdle
  /\ parserIdle
  /\ typeMapIdle
  /\ loadsIdle

\* filter(document, types) up to its loop
FilterCall ==
  /\ pc = "ready"
  /\ pc' = "first pass"
  /\ filter2Enter(document, types)
  /\ UNCHANGED << loaderVars, otherDependencies, _visited, fvisited, pruned >>
  /\ UNCHANGED cacheVars
  /\ UNCHANGED parserVars
  /\ UNCHANGED typeMapVars
  /\ UNCHANGED loadsVars

\* one turn of the first pass; a turn that throws ends the call
FilterLoop ==
  /\ pc = "first pass"
  /\ visiting # << >>
  /\ IF filter2Throws(Last(visiting))
       THEN /\ pc' = "error"
            /\ visiting' = Front(visiting)
            /\ dependencies' = dependencies \cup { Last(visiting) }
            /\ UNCHANGED << _visited, odd >>
       ELSE /\ filter2Turn
            /\ UNCHANGED pc
  /\ UNCHANGED << document, types, loaderVars, otherDependencies, fvisited, pruned >>
  /\ UNCHANGED cacheVars
  /\ UNCHANGED parserVars
  /\ UNCHANGED typeMapVars
  /\ UNCHANGED loadsVars

\* the second pass, and the return of the pruned document
FilterPrune ==
  /\ pc = "first pass"
  /\ visiting = << >>
  /\ pruned' = Append(pruned, prune2(document, dependencies))
  /\ pc' = IF Len(pruned') < Calls THEN "ready" ELSE "done"
  /\ UNCHANGED << loaderVars, filterVars, otherDependencies, fvisited >>
  /\ UNCHANGED cacheVars
  /\ UNCHANGED parserVars
  /\ UNCHANGED typeMapVars
  /\ UNCHANGED loadsVars

FilterNext ==
  \/ FilterCall
  \/ FilterLoop
  \/ FilterPrune

FilterSpec == FilterInit /\ [][FilterNext]_vars

\* a call runs on: nothing in filter waits
FairFilterSpec == FilterSpec /\ WF_vars(FilterNext)

-----------------------------------------------------------------------------
(* The TypeMap-based filter called on its own *)

\* new DocumentDefinitionFilter(), a document, the definitions put before it
\* and a list of names
TypeMapInit ==
  /\ loaderIdle
  /\ pc = "ready"
  /\ \E defs \in Documents : \E k \in { 0, 1 } :
       /\ k <= Len(defs)
       /\ otherDependencies = SubSeq(defs, 1, k)
       /\ document = SubSeq(defs, k + 1, Len(defs))
  /\ types \in TypeLists
  /\ visiting = << >>
  /\ dependencies = {}
  /\ _visited = {}
  /\ fvisited = << >>
  /\ pruned = << >>
  /\ odd = FALSE
  /\ cacheIdle
  /\ parserIdle
  /\ typeMapIdle
  /\ loadsIdle

\* filter(document, otherDependencies, types) up to its loop
TypeMapFilterCall ==
  /\ pc = "ready"
  /\ pc' = "first pass"
  /\ visiting' = types
  /\ fvisited' = << >>
  /\ odd' = FALSE
  /\ _typeMaps' = getTypeMapFor(_typeMaps,
                     mergedDocument(Len(pruned) + 1, otherDependencies, document))
  /\ constructed' =
       IF typeMapsHas(_typeMaps,
                      mergedDocument(Len(pruned) + 1, otherDependencies, document))
         THEN constructed ELSE constructed + 1
  /\ UNCHANGED << loaderVars, document, otherDependencies, types, dependencies,
                  _visited, pruned >>
  /\ UNCHANGED cacheVars
  /\ UNCHANGED parserVars
  /\ UNCHANGED loadsVars

\* one turn of the first pass; a turn that throws ends the call
TypeMapFilterLoop ==
  /\ pc = "first pass"
  /\ visiting # << >>
  /\ IF filterThrows(Last(visiting))
       THEN /\ pc' = "error"
            /\ visiting' = Front(visiting)
            /\ fvisited' = added(fvisited, Last(visiting))
            /\ UNCHANGED odd
       ELSE /\ filterTurn
            /\ UNCHANGED pc
  /\ types' = typesAfterPop(types, visiting')
  /\ UNCHANGED << loaderVars, document, otherDependencies, dependencies,
                  _visited, pruned >>
  /\ UNCHANGED cacheVars
  /\ UNCHANGED parserVars
  /\ UNCHANGED typeMapVars
  /\ UNCHANGED loadsVars

\* the second pass, and the return of newDocument
TypeMapFilterSelect ==
  /\ pc = "first pass"
  /\ visiting = << >>
  /\ pc' = "done"
  /\ pruned' = Append(pruned, secondPass(merged(otherDependencies, document),
                                         fvisited, {}, << >>))
  /\ UNCHANGED << loaderVars, document, otherDependencies, types, visiting,
                  dependencies, _visited, fvisited, odd >>
  /\ UNCHANGED cacheVars
  /\ UNCHANGED parserVars
  /\ UNCHANGED typeMapVars
  /\ UNCHANGED loadsVars

TypeMapNext ==
  \/ TypeMapFilterCall
  \/ TypeMapFilterLoop
  \/ TypeMapFilterSelect

TypeMapSpec == TypeMapInit /\ [][TypeMapNext]_vars

\* a call runs on: nothing in filter waits
FairTypeMapSpec == TypeMapSpec /\ WF_vars(TypeMapNext)

-----------------------------------------------------------------------------
(* The TypeMap-based filter called again and again on one instance with    *)
(* the same Document object and the same names                             *)

\* the caller, holding the document a call returned, is about to call again
TypeMapFilterAgain ==
  /\ pc = "done"
  /\ Len(pruned) < Calls
  /\ pc' = "ready"
  /\ UNCHANGED << loaderVars, document, otherDependencies, types, visiting,
                  dependencies, _visited, fvisited, pruned, odd >>
  /\ UNCHANGED cacheVars
  /\ UNCHANGED parserVars
  /\ UNCHANGED typeMapVars
  /\ UNCHANGED loadsVars

TypeMapCallsInit ==
  /\ TypeMapInit
  /\ otherDependencies = << >>

TypeMapCallsNext ==
  \/ TypeMapNext
  \/ TypeMapFilterAgain

TypeMapCallsSpec == TypeMapCallsInit /\ [][TypeMapCallsNext]_vars

-----------------------------------------------------------------------------
(* CachedFileLoader called on its own, one call after the other, while the *)
(* files of storage come, go and change                                    *)

\* most loadFile calls on the file loader
MaxCalls == 3
\* most changes of storage
MaxWrites == 2

\* what storage holds at a path: no file (or a directory), or a file and its text
NoFile == [ exists |-> FALSE, text |-> << >> ]

AFile(text) == [ exists |-> TRUE, text |-> text ]

Texts == { << " ", "x", "\n" >>, << "y" >> }

\* the cwd and filePath arguments of the calls; GraphQLFileLoader passes the
\* absolute path as cwd and leaves filePath to its default ''
Cwds == { << "/", "s" >>, FileA }

FilePaths == { << >>, << ".", "a.graphql" >>, FileB, << "..", "s", "b.graphql" >> }

AbsolutePaths == { resolve(cwd, filePath) : cwd \in Cwds, filePath \in FilePaths }

\* the record of a call that ended: its path, whether it read storage, whether
\* it returned (or was rejected), and what it returned
Ended(absolutePath, read, ok, contents) ==
  [ path |-> absolutePath, read |-> read, ok |-> ok, contents |-> contents ]

\* new CachedFileLoader(), and a storage
CacheInit ==
  /\ loaderIdle
  /\ pc = "cache"
  /\ document = << >>
  /\ otherDependencies = << >>
  /\ types = << >>
  /\ visiting = << >>
  /\ dependencies = {}
  /\ _visited = {}
  /\ fvisited = << >>
  /\ pruned = << >>
  /\ odd = FALSE
  /\ _cache = << >>
  /\ disk \in { d \in [ AbsolutePaths -> { NoFile } \cup { AFile(t) : t \in Texts } ] :
                  \A q \in AbsolutePaths \ { FileA, FileB } : d[q] = NoFile }
  /\ pending = << >>
  /\ log = << >>
  /\ writes = 0
  /\ parserIdle
  /\ typeMapIdle
  /\ loadsIdle

loaderAndFilterVars ==
  << store, pc, files, visited, imports, entries, definitions, output, scans, passes,
     document, otherDependencies, types, visiting, dependencies, _visited, fvisited,
     pruned, odd, fileName >>

notCacheVars == << store, pc, files, visited, imports, entries, definitions, output,
                   scans, passes, document, otherDependencies, types, visiting,
                   dependencies, _visited, fvisited, pruned, odd, fileName,
                   _graphqlCache, parses, parseLog, _typeMaps, constructed,
                   waiting, returns >>

\* loadFile(cwd, filePath) up to "await fs.readFile(absolutePath)", or to its
\* return when the cache has the path, while fewer than limit calls wait
loadFileCall(limit) ==
  /\ Len(pending) < limit
  /\ Len(log) + Len(pending) < MaxCalls
  /\ \E cwd \in Cwds : \E filePath \in FilePaths :
       LET absolutePath == resolve(cwd, filePath) IN
         IF cacheHas(_cache, absolutePath)
           THEN /\ log' = Append(log, Ended(absolutePath, FALSE, TRUE, _cache[absolutePath]))
                /\ UNCHANGED pending
           ELSE /\ pending' = Append(pending, absolutePath)
                /\ UNCHANGED log
  /\ UNCHANGED << _cache, disk, writes, notCacheVars >>

\* a call made when no other call is waiting
CachedLoadFile == loadFileCall(1)

\* fs.readFile of a waiting call settles: the call is rejected, or it caches the
\* trimmed text and returns this._cache.get(absolutePath)
ReadFile ==
  /\ \E i \in DOMAIN pending :
       LET absolutePath == pending[i] IN
         /\ pending' = SubSeq(pending, 1, i - 1) \o SubSeq(pending, i + 1, Len(pending))
         /\ IF disk[absolutePath].exists
              THEN /\ _cache' = cacheSet(_cache, absolutePath, trim(disk[absolutePath].text))
                   /\ log' = Append(log, Ended(absolutePath, TRUE, TRUE,
                                               trim(disk[absolutePath].text)))
              ELSE /\ log' = Append(log, Ended(absolutePath, TRUE, FALSE, << >>))
                   /\ UNCHANGED _cache
  /\ UNCHANGED << disk, writes, notCacheVars >>

\* the environment writes, creates or removes a file
DiskWrite ==
  /\ writes < MaxWrites
  /\ writes' = writes + 1
  /\ \E q \in { FileA, FileB } : \E f \in { NoFile } \cup { AFile(t) : t \in Texts } :
       /\ f # disk[q]
       /\ disk' = [ disk EXCEPT ![q] = f ]
  /\ UNCHANGED << _cache, pending, log, notCacheVars >>

CacheNext ==
  \/ CachedLoadFile
  \/ ReadFile
  \/ DiskWrite

CacheSpec == CacheInit /\ [][CacheNext]_vars

-----------------------------------------------------------------------------
(* CachedFileLoader called by loads that run at the same time, as the loads *)
(* loadAllContent starts with Promise.all do                                *)

\* most calls waiting for fs.readFile at the same time
MaxPending == 2

\* a call made while other calls may be waiting
OverlappingLoadFile == loadFileCall(MaxPending)

OverlapNext ==
  \/ OverlappingLoadFile
  \/ ReadFile
  \/ DiskWrite

OverlapSpec == CacheInit /\ [][OverlapNext]_vars

-----------------------------------------------------------------------------
(* CachedGraphqlParser called on its own *)

\* most parse calls on the parser
MaxParses == 3

\* the contents arguments of the calls
ParserContents ==
  { Contents(<< >>, << >>, EntryDocument, << >>),
    Contents(<< >>, << LineAb >>, EntryDocument, << >>),
    Contents(<< >>, << >>, << ObjAd, DirD >>, << >>),
    Contents(<< >>, << >>, << ObjA, NotSDL >>, << >>) }

\* new CachedGraphqlParser()
ParserInit ==
  /\ loaderIdle
  /\ pc = "parser"
  /\ document = << >>
  /\ otherDependencies = << >>
  /\ types = << >>
  /\ visiting = << >>
  /\ dependencies = {}
  /\ _visited = {}
  /\ fvisited = << >>
  /\ pruned = << >>
  /\ odd = FALSE
  /\ cacheIdle
  /\ parserIdle
  /\ typeMapIdle
  /\ loadsIdle

\* parse(filePath, contents)
Parse ==
  /\ pc = "parser"
  /\ Len(parseLog) < MaxParses
  /\ \E filePath \in { FileA, FileB } : \E contents \in ParserContents :
       LET result == parse(_graphqlCache, parses, filePath, contents) IN
         /\ _graphqlCache' = result.cache
         /\ parses' = IF result.ok /\ result.parsed THEN parses + 1 ELSE parses
         /\ parseLog' = Append(parseLog, Parsed(filePath, contents, result))
  /\ UNCHANGED << cacheVars, loaderAndFilterVars, typeMapVars, loadsVars >>

ParserNext == Parse

ParserSpec == ParserInit /\ [][ParserNext]_vars

-----------------------------------------------------------------------------
(* What the claims speak of *)

\* the kinds of the base definitions
BaseKinds == { "ObjectTypeDefinition", "InterfaceTypeDefinition", "UnionTypeDefinition",
               "EnumTypeDefinition", "ScalarTypeDefinition", "InputObjectTypeDefinition",
               "DirectiveDefinition" }

\* the request list holds the wildcard marker
HoldsWildcard(list) == \E i \in 1..Len(list) : list[i] = "*"

\* the stored file holds a line that starts as an import line and does not match
\* the import form
HoldsMalformed(file) ==
  /\ file \in DOMAIN store
  /\ \E line \in Range(store[file].lines) : startsWithImport(line) /\ ~matchesImport(line)

IsPrefix(s, t) == Len(s) <= Len(t) /\ SubSeq(t, 1, Len(s)) = s

\* the import lines of a stored file that parse, as statements
statementsOf(file) ==
  IF file \in DOMAIN store
    THEN Map(LAMBDA line : importStatement(file, line),
             Filter(LAMBDA line : startsWithImport(line) /\ matchesImport(line),
                    store[file].lines))
    ELSE << >>

\* the files the import lines of the files in S name
ImportedBy(S) == UNION { { st.fileName : st \in Range(statementsOf(f)) } : f \in S }

RECURSIVE ReachableFrom(_)
ReachableFrom(S) ==
  IF ImportedBy(S) \subseteq S THEN S ELSE ReachableFrom(S \cup ImportedBy(S))

\* the files reachable from the entry file through import lines
ReachableFiles == ReachableFrom({ FileA })

\* the part of the merged list that comes from one file
blockOf(defs, file) == Filter(LAMBDA e : e.file = file, defs)

\* how often an element stands in a list
Count(s, x) == Cardinality({ i \in 1..Len(s) : s[i] = x })

-----------------------------------------------------------------------------
(* Claims about the import-graph traversal and the merge *)

\* C1: whatever the files import, cycles included, the traversal that loadFile
\* starts comes to an end (it returns the graph or fails with an error).
C1_TraversalTerminates == (pc = "build") ~> (pc # "build")

\* the traversal returned although b imports from the entry file, which had been
\* visited before b was
C1_Witness ==
  /\ pc = "merge"
  /\ FileB \in visited
  /\ FileA \in ImportedBy({ FileB })

\* C2: in one load no file is scanned for import lines twice or passed twice; when
\* the load returns, every file reachable from the entry was scanned once and went
\* through one pass, every definition of a file taken whole stands in the merged
\* list once, and no definition of any file stands in it twice.
C2_EachFileOnce ==
  /\ \A f \in DOMAIN scans : scans[f] <= 1 /\ passes[f] <= 1
  /\ pc = "done" =>
       /\ \A f \in ReachableFiles : scans[f] = 1 /\ passes[f] = 1
       /\ \A e \in Range(output.definitions) : Count(output.definitions, e) = 1
       /\ \A f \in ReachableFiles :
            HoldsWildcard(get(imports, f)) =>
              \A node \in Range(store[f].definitions) :
                Count(output.definitions, [ file |-> f, node |-> node ]) = 1

\* a load returned for an entry file and a file b that import from each other, with
\* definitions of both in the merged list
C2_Witness ==
  /\ pc = "done"
  /\ FileB \in ImportedBy({ FileA })
  /\ FileA \in ImportedBy({ FileB })
  /\ blockOf(output.definitions, FileA) # << >>
  /\ blockOf(output.definitions, FileB) # << >>


\* The closure rule: the names a definition or extension requires
RuleRefs(node) ==
  { name \in UNION { { unwrapTypeNameFrom(fd) }
                       \cup { unwrapTypeNameFrom(arg) : arg \in Range(fd.arguments) } :
                     fd \in Range(node.fields) } : ~isBuiltInType(name) }
    \cup Range(node.directives)
    \cup UNION { Range(fd.directives) : fd \in Range(node.fields) }
    \cup UNION { Range(v.directives) : v \in Range(node.values) }
    \cup Range(node.interfaces)
    \cup Range(node.types)

\* The closure rule: the object types recorded as implementers of the interface
\* types among the names S
RuleImplementers(defs, S) ==
  { node.name : node \in
      { n \in Range(defs) :
          /\ n.kind \in { "ObjectTypeDefinition", "ObjectTypeExtension" }
          /\ \E iface \in Range(n.interfaces) :
               /\ iface \in S
               /\ \E i \in Range(defs) :
                    /\ i.name = iface
                    /\ i.kind \in { "InterfaceTypeDefinition", "InterfaceTypeExtension" } } }

\* the names reachable from the names S by the closure rule
RECURSIVE RuleClosure(_, _)
RuleClosure(defs, S) ==
  LET more == S \cup UNION { RuleRefs(node) : node \in { n \in Range(defs) : n.name \in S } }
                \cup RuleImplementers(defs, S)
  IN IF more = S THEN S ELSE RuleClosure(defs, more)

\* C3: when a load returns, a prunable definition of a file whose request list
\* holds no wildcard is in the merged list only if its name is requested or is
\* reachable from a requested name by the closure rule; the definitions of that
\* file that have a requested name are in the list, and so are the entry file's.
C3_OnlyRequestedClosure ==
  pc = "done" =>
    /\ \A e \in Range(output.definitions) :
         (~HoldsWildcard(get(imports, e.file)) /\ prunable(e.node)) =>
           e.node.name \in RuleClosure(store[e.file].definitions,
                                        Range(get(imports, e.file)))
    /\ \A f \in keys(imports) : \A node \in Range(store[f].definitions) :
         (node.name \in Range(get(imports, f)) \/ f = FileA) =>
           [ file |-> f, node |-> node ] \in Range(output.definitions)


\* C5: when a load returns, each file whose request list holds the wildcard marker
\* stands in the merged list with all of its definitions, in document order; an
\* entry file without import lines yields its own definitions and nothing else.
C5_WildcardKeepsAll ==
  pc = "done" =>
    /\ \A f \in keys(imports) :
         HoldsWildcard(get(imports, f)) =>
           blockOf(output.definitions, f) = tagged(f, store[f].definitions)
    /\ statementsOf(FileA) = << >> =>
         output.definitions = tagged(FileA, store[FileA].definitions)

\* a load returned for an entry file that another file imports names from: the
\* request list of the entry file holds the wildcard marker and those names
C5_Witness ==
  /\ pc = "done"
  /\ HoldsWildcard(get(imports, FileA))
  /\ Len(get(imports, FileA)) > 1
  /\ blockOf(output.definitions, FileA) = tagged(FileA, EntryDocument)

\* C6: from the start of the traversal on, the entry file is a key of the graph
\* and its list holds the wildcard marker; the same holds of the copy loadFile
\* takes of the graph.
C6_EntryKeepsWildcard ==
  pc # "idle" =>
    /\ hasKey(imports, FileA)
    /\ HoldsWildcard(get(imports, FileA))
    /\ pc \in { "merge", "filter", "done" } =>
         \A e \in Range(entries) : e.fileName = FileA => HoldsWildcard(e.types)

\* an import line that names the entry file was processed
C6_Witness ==
  /\ pc = "build"
  /\ hasKey(imports, FileA)
  /\ Len(get(imports, FileA)) > 1

\* the names the import lines of the scanned files ask of a target
RECURSIVE requestedOf(_, _)
requestedOf(statements, target) ==
  IF statements = << >> THEN << >>
  ELSE (IF Head(statements).fileName = target THEN Head(statements).types ELSE << >>)
         \o requestedOf(Tail(statements), target)

\* the import statements of the files scanned so far
scannedStatements ==
  Flatten(Map(LAMBDA f : IF scans[f] = 1 THEN statementsOf(f) ELSE << >>,
              << FileA, FileB, FileC >>))

\* C7: a step of the traversal never removes a key of the graph and only appends
\* to a list of it; and the list of each target holds the names of every import
\* line of the scanned files that names the target, as many as those lines hold.
C7_RequestsAccumulate ==
  /\ [][ pc = "build" =>
           \A key \in keys(imports) :
             hasKey(imports', key) /\ IsPrefix(get(imports, key), get(imports', key)) ]_vars
  /\ [] ( pc \in { "build", "merge" } =>
            \A f \in { g \in Files \cup { FileM } : scans[g] = 1 /\ ~HoldsMalformed(g) } :
              \A st \in Range(statementsOf(f)) :
                /\ hasKey(imports, st.fileName)
                /\ Range(st.types) \subseteq Range(get(imports, st.fileName)) )
  /\ [] ( pc = "merge" =>
            \A e \in Range(imports) :
              Len(e.types) = (IF e.fileName = FileA THEN 1 ELSE 0)
                                + Len(requestedOf(scannedStatements, e.fileName)) )

\* two import lines, of one file or of two, named the same target, and its list
\* holds the names of both
C7_Witness ==
  /\ pc = "merge"
  /\ \E e \in Range(imports) :
       /\ e.fileName # FileA
       /\ Len(requestedOf(scannedStatements, e.fileName)) = Len(e.types)
       /\ Cardinality({ f \in Files : scans[f] = 1 /\ e.fileName \in ImportedBy({ f }) }) = 2

\* some file reachable from the entry holds a line that starts as an import line
\* and does not match the import form
MalformedReachable ==
  \E f \in ReachableFiles : HoldsMalformed(f)

\* C8: if a file reachable from the entry holds a malformed import line, the load
\* ends with an error, never gets as far as merging, and returns no text.
C8_MalformedImportFails ==
  /\ [] ( MalformedReachable =>
            /\ pc \notin { "merge", "filter", "done" }
            /\ output = NoOutput
            /\ definitions = << >> )
  /\ (MalformedReachable /\ pc = "build") ~> (pc = "error")

\* the load failed on a malformed line of an imported file, after the entry file
\* had been scanned
C8_Witness ==
  /\ pc = "error"
  /\ ~HoldsMalformed(FileA)
  /\ \E f \in { FileB, FileC } : scans[f] = 1 /\ HoldsMalformed(f)
  /\ output = NoOutput

\* the names the entry file requests from the file
entryRequests(file) == Range(requestedOf(statementsOf(FileA), file))

\* C15: when a load returns, for every type the entry file defines and every
\* definition of the same name in a file the entry imports from, that name being
\* reachable by the closure rule from the names the entry requests of that file,
\* the merged list holds both definitions.
C15_NoCrossFileDedup ==
  pc = "done" =>
    \A f \in keys(imports) \ { FileA } :
      \A x \in Range(store[FileA].definitions) : \A y \in Range(store[f].definitions) :
        (/\ x.kind \in BaseKinds
         /\ y.kind \in BaseKinds
         /\ x.name = y.name
         /\ y.name \in RuleClosure(store[f].definitions, entryRequests(f))) =>
          /\ [ file |-> FileA, node |-> x ] \in Range(output.definitions)
          /\ [ file |-> f, node |-> y ] \in Range(output.definitions)

-----------------------------------------------------------------------------
(* Claims about the filters called on their own *)

\* the definition list holds a base definition of the name
HoldsBase(defs, name) ==
  \E i \in 1..Len(defs) : defs[i].name = name /\ defs[i].kind \in BaseKinds

\* C4: when the TypeMap-based filter has returned, every name that a retained
\* definition or extension refers to (field types, argument types, interfaces,
\* union members, applied directives; built-in scalars aside) and that has a base
\* definition among the filtered definitions has a base definition in the result.
C4_OutputDependencyClosed ==
  pc = "done" =>
    \A i \in 1..Len(pruned[1]) : \A name \in RuleRefs(pruned[1][i]) :
      HoldsBase(otherDependencies \o document, name) => HoldsBase(pruned[1], name)

\* C9: the documents that the calls of the two-argument filter on one instance,
\* with the same document and the same names, have returned are all the same.
C9_SameResultTwice ==
  \A i \in 1..Len(pruned) : \A j \in 1..Len(pruned) : pruned[i] = pruned[j]

\* C10: the first pass of filter, once entered, comes to its end, whatever the
\* document and the requested names.
C10_FirstPassTerminates == (pc = "first pass") ~> (pc # "first pass")

\* no two base definitions of the list have the same name
UniqueBases(defs) ==
  \A i \in 1..Len(defs) : \A j \in 1..Len(defs) :
    (defs[i].kind \in BaseKinds /\ defs[j].kind \in BaseKinds
       /\ defs[i].name = defs[j].name) => i = j

\* the node is an object type, or an extension of one, that declares the interface
Declares(node, iface) ==
  /\ node.kind = "ObjectTypeDefinition" \/ node.kind = "ObjectTypeExtension"
  /\ \E k \in 1..Len(node.interfaces) : node.interfaces[k] = iface

\* the list holds the node
Holds(defs, node) == \E i \in 1..Len(defs) : defs[i] = node

\* the interface definitions of the list that have the name
InterfacesNamed(defs, name) ==
  { i \in 1..Len(defs) : defs[i].kind = "InterfaceTypeDefinition" /\ defs[i].name = name }

\* C11: when the TypeMap-based filter has returned from a call that requested
\* the name of an interface and nothing else (no name having two base
\* definitions), the result holds the interface, every object type definition
\* and object type extension that declares the interface, and a base definition
\* of every defined name that the closure rule reaches from the interface.
C11_InterfacePullsImplementers ==
  (/\ pc = "done"
   /\ Len(types) > 0
   /\ \A k \in 1..Len(types) : types[k] = types[1]
   /\ UniqueBases(otherDependencies \o document)
   /\ InterfacesNamed(otherDependencies \o document, types[1]) # {}) =>
    LET all == otherDependencies \o document IN
      /\ \A i \in InterfacesNamed(all, types[1]) : Holds(pruned[1], all[i])
      /\ \A i \in 1..Len(all) : Declares(all[i], types[1]) => Holds(pruned[1], all[i])
      /\ \A name \in RuleClosure(all, { types[1] }) :
           HoldsBase(all, name) => HoldsBase(pruned[1], name)

\* the union definitions of the list that have the name
UnionsNamed(defs, name) ==
  { i \in 1..Len(defs) : defs[i].kind = "UnionTypeDefinition" /\ defs[i].name = name }

\* the member names of the unions of the list that have the name
MembersOf(defs, name) ==
  UNION { { defs[i].types[k] : k \in 1..Len(defs[i].types) } : i \in UnionsNamed(defs, name) }

\* C12: when the TypeMap-based filter has returned from a call that requested
\* the name of a union (no name having two base definitions), the result holds
\* the union, a base definition of every member that is defined, and a base
\* definition of every defined name the closure rule reaches from the members.
C12_UnionPullsMembers ==
  (/\ pc = "done"
   /\ UniqueBases(otherDependencies \o document)
   /\ \E k \in 1..Len(types) : UnionsNamed(otherDependencies \o document, types[k]) # {}) =>
    LET all == otherDependencies \o document IN
      \A k \in 1..Len(types) :
        /\ \A i \in UnionsNamed(all, types[k]) : Holds(pruned[1], all[i])
        /\ \A name \in RuleClosure(all, MembersOf(all, types[k])) :
             HoldsBase(all, name) => HoldsBase(pruned[1], name)

\* the names of the built-in scalars
BuiltIns == { "String", "Int", "Float", "Boolean", "ID" }

\* C13: at no moment of a call of the TypeMap-based filter does the work list
\* hold the name of a built-in scalar (the requested names of the model are no
\* built-in names, so a name on the work list that is one was pushed).
C13_NoBuiltInPushed ==
  \A k \in 1..Len(visiting) : visiting[k] \notin BuiltIns

\* the list holds a definition or an extension of the name
HoldsNamed(defs, name) == \E i \in 1..Len(defs) : defs[i].name = name

\* C14: when the first pass of the two-argument filter is over, the dependency
\* set holds every requested name, also a name that no definition and no
\* extension of the document has.
C14_RequestedInClosure ==
  (pc = "first pass" /\ visiting = << >>) =>
    \A k \in 1..Len(types) : types[k] \in dependencies

\* a first pass is over that was asked for a name the document does not hold,
\* beside a name it holds, and the set holds both
C14_Witness ==
  /\ pc = "first pass"
  /\ visiting = << >>
  /\ \E k \in 1..Len(types) :
       ~HoldsNamed(document, types[k]) /\ types[k] \in dependencies
  /\ \E k \in 1..Len(types) :
       HoldsNamed(document, types[k]) /\ types[k] \in dependencies

\* the kinds of the extensions
ExtensionKinds == { "ObjectTypeExtension", "InterfaceTypeExtension", "UnionTypeExtension",
                    "EnumTypeExtension", "ScalarTypeExtension", "InputObjectTypeExtension" }

\* the extensions of the name in the list
ExtensionsNamed(defs, name) ==
  { i \in 1..Len(defs) : defs[i].kind \in ExtensionKinds /\ defs[i].name = name }

\* C16: when the TypeMap-based filter has returned, for every requested name
\* that has extensions but no base definition among the filtered definitions
\* (no name having two), the result holds those extensions and a base definition
\* of every defined name they refer to.
C16_ExtensionOnlyRetained ==
  (pc = "done" /\ UniqueBases(otherDependencies \o document)) =>
    LET all == otherDependencies \o document IN
      \A k \in 1..Len(types) :
        ~HoldsBase(all, types[k]) =>
          \A i \in ExtensionsNamed(all, types[k]) :
            /\ Holds(pruned[1], all[i])
            /\ \A ref \in RuleRefs(all[i]) : HoldsBase(all, ref) => HoldsBase(pruned[1], ref)

\* C17: when the first call of the two-argument filter on an instance has
\* returned, for every requested name that has a base definition in the document
\* and every extension of that name in the document, the result holds a base
\* definition of every defined name the extension refers to.
C17_ExtensionsOfDefinedExpanded ==
  Len(pruned) >= 1 =>
    \A k \in 1..Len(types) :
      HoldsBase(document, types[k]) =>
        \A i \in ExtensionsNamed(document, types[k]) :
          \A ref \in RuleRefs(document[i]) :
            HoldsBase(document, ref) => HoldsBase(pruned[1], ref)

\* C18: when the TypeMap-based filter has returned, the result holds every
\* schema definition and schema extension of the document.
C18_SchemaNodesPassThrough ==
  pc = "done" =>
    \A i \in 1..Len(document) :
      document[i].kind \in { "SchemaDefinition", "SchemaExtension" } =>
        Holds(pruned[1], document[i])

-----------------------------------------------------------------------------
(* Claims about the content cache *)

\* C20: of the calls of one file loader, made one after the other, a call that
\* comes after a call of the same absolute path whose read of storage succeeded
\* reads no storage and returns what that call returned; so storage is read with
\* success at most once for a path.
C20_ReadOncePerPath ==
  \A i \in 1..Len(log) : \A j \in 1..Len(log) :
    (i < j /\ log[i].path = log[j].path /\ log[i].read /\ log[i].ok) =>
      /\ ~log[j].read
      /\ log[j].ok
      /\ log[j].contents = log[i].contents

\* a path was read with success, storage then changed at that path, and a later
\* call of the path returned the content of the first call without a read
C20_Witness ==
  \E i \in 1..Len(log) : \E j \in 1..Len(log) :
    /\ i < j
    /\ log[i].path = log[j].path
    /\ log[i].read /\ log[i].ok
    /\ ~log[j].read
    /\ log[j].contents = log[i].contents
    /\ disk[log[j].path] \notin { AFile(t) : t \in { u \in Texts : log[j].contents = trim(u) } }

-----------------------------------------------------------------------------
(* Claims about the caches and about the order of a load *)

\* C21: on one parser, a parse call for a file path for which an earlier call
\* returned a document returns that same Document object, does not call
\* graphql.parse, and does not throw, whatever its contents argument is.
C21_SecondParseReturnsFirst ==
  \A i \in 1..Len(parseLog) : \A j \in 1..Len(parseLog) :
    (i < j /\ parseLog[i].filePath = parseLog[j].filePath /\ parseLog[i].ok) =>
      /\ parseLog[j].ok
      /\ ~parseLog[j].parsed
      /\ parseLog[j].document = parseLog[i].document

\* a path was parsed, and a later call for it with a text that is not SDL
\* returned the object of the first call
C21_Witness ==
  \E i \in 1..Len(parseLog) : \E j \in 1..Len(parseLog) :
    /\ i < j
    /\ parseLog[i].filePath = parseLog[j].filePath
    /\ parseLog[i].parsed /\ parseLog[i].ok
    /\ NotSDL \in Range(parseLog[j].contents.definitions)
    /\ parseLog[j].document.object = parseLog[i].document.object
    /\ parseLog[j].document.definitions = parseLog[i].contents.definitions
    /\ parses = 1

\* the text without the white space it begins and ends with
TrimmedText(text) ==
  LET inked == { i \in 1..Len(text) : text[i] \notin { " ", "\n" } } IN
    IF inked = {} THEN << >>
    ELSE SubSeq(text, CHOOSE i \in inked : \A k \in inked : i <= k,
                      CHOOSE j \in inked : \A k \in inked : k <= j)

\* C22: while storage does not change, every loadFile call of the file loader
\* for a path at which a file exists, calls that overlap with other calls for the
\* same path included, returns the trimmed text of that file, and once such a
\* call has returned the cache holds that text for the path.
C22_OverlappingLoadsAgree ==
  writes = 0 =>
    \A i \in 1..Len(log) :
      disk[log[i].path].exists =>
        /\ log[i].ok
        /\ log[i].contents = TrimmedText(disk[log[i].path].text)
        /\ cacheHas(_cache, log[i].path)
        /\ _cache[log[i].path] = log[i].contents

\* two calls for one path were waiting for fs.readFile at the same time, both
\* read the file, whose text begins and ends with white space, and both returned
C22_Witness ==
  /\ writes = 0
  /\ pending = << >>
  /\ \E i \in 1..Len(log) : \E j \in 1..Len(log) :
       /\ i < j
       /\ log[i].path = log[j].path
       /\ log[i].read /\ log[i].ok
       /\ log[j].read /\ log[j].ok
       /\ log[i].contents = log[j].contents
       /\ log[i].contents # disk[log[i].path].text

\* the text of the stored file without the white space it begins and ends with
TrimmedFile(file) == [ store[file] EXCEPT !.head = << >>, !.tail = << >> ]

\* C23: no step of a load removes or alters an entry of the content cache, and
\* after a load that was aborted by a malformed import line or by a failed read
\* every entry of the cache is the trimmed text of the file stored at its path
\* and no path whose read failed is in the cache.
C23_AbortKeepsCacheValid ==
  /\ [][ \A q \in DOMAIN _cache : q \in DOMAIN _cache' /\ _cache'[q] = _cache[q] ]_vars
  /\ [] ( pc = "error" =>
            /\ \A q \in DOMAIN _cache : q \in DOMAIN store /\ _cache[q] = TrimmedFile(q)
            /\ \A f \in visited : f \notin DOMAIN store => f \notin DOMAIN _cache )

\* a load was aborted by the failed read of a file that b imports from, after the
\* entry file and b had been cached, b without its blank line and final newline
C23_Witness ==
  /\ pc = "error"
  /\ FileM \in visited
  /\ FileM \notin DOMAIN _cache
  /\ FileM \in ImportedBy({ FileB })
  /\ { FileA, FileB } \subseteq DOMAIN _cache
  /\ _cache[FileB] # store[FileB]
  /\ _cache[FileB].lines = store[FileB].lines

\* C24: a call of loadFile with skipGraphQLImport returns the trimmed text of
\* the entry file, import lines included and malformed ones too, without an
\* error; no file was scanned for import lines, no file but the entry was
\* read, the parser parsed nothing and the filter was not called.
C24_SkipReturnsEntryText ==
  pc = "skipped" =>
    /\ output = [ returned |-> TRUE, text |-> TrimmedFile(FileA) ]
    /\ \A f \in DOMAIN scans : scans[f] = 0 /\ passes[f] = 0
    /\ DOMAIN _cache = { FileA }
    /\ imports = << >> /\ entries = << >> /\ definitions = << >>
    /\ parses = 0 /\ parseLog = << >> /\ DOMAIN _graphqlCache = {}
    /\ document = << >> /\ visiting = << >> /\ dependencies = {} /\ _visited = {}

\* a call with the option returned for an entry file that holds an import line
\* and a malformed import line
C24_Witness ==
  /\ pc = "skipped"
  /\ output.returned
  /\ HoldsMalformed(FileA)
  /\ \E line \in Range(store[FileA].lines) : matchesImport(line)
  /\ output.text.lines = store[FileA].lines

\* C25: a call of the TypeMap-based filter that is asked for a name of which the
\* filtered definitions hold neither a definition nor an extension does not end
\* with an error, and the document it returns holds nothing of that name.
C25_AbsentNameIgnored ==
  \A k \in 1..Len(types) :
    ~HoldsNamed(otherDependencies \o document, types[k]) =>
      /\ pc # "error"
      /\ pc = "done" => ~HoldsNamed(Last(pruned), types[k])

\* the names of the directives applied to the node, to its fields and to its
\* enum values
DirectivesOn(node) ==
  Range(node.directives)
    \cup UNION { Range(fd.directives) : fd \in Range(node.fields) }
    \cup UNION { Range(v.directives) : v \in Range(node.values) }

\* what a turn for the name expands: the extensions of the name and, unless the
\* name was expanded before, its base definition (the last one of the list)
ExpandedAt(defs, seen, name) ==
  { defs[i] : i \in ExtensionsNamed(defs, name) }
    \cup { defs[i] : i \in { j \in 1..Len(defs) :
                               /\ defs[j].kind \in BaseKinds
                               /\ defs[j].name = name
                               /\ name \notin Range(seen)
                               /\ \A k \in (j + 1)..Len(defs) :
                                    ~(defs[k].kind \in BaseKinds /\ defs[k].name = name) } }

\* the directive declarations of the list
DirectiveDeclarations(defs) ==
  { defs[i] : i \in { j \in 1..Len(defs) : defs[j].kind = "DirectiveDefinition" } }

\* C26: a turn of the first pass of the TypeMap-based filter leaves on the work
\* list the name of every directive applied to a definition or extension it
\* expands, to a field of it or to an enum value of it; and when the call has
\* returned (no name having two base definitions), the result holds the
\* declaration of every directive applied in a node of the result.
C26_DirectivesPushed ==
  /\ [][ (pc = "first pass" /\ pc' = "first pass" /\ visiting # << >>) =>
           \A node \in ExpandedAt(otherDependencies \o document, fvisited, Last(visiting)) :
             DirectivesOn(node) \subseteq Range(visiting') ]_vars
  /\ [] ( (pc = "done" /\ UniqueBases(otherDependencies \o document)) =>
            \A node \in Range(Last(pruned)) :
              \A decl \in DirectiveDeclarations(otherDependencies \o document) :
                decl.name \in DirectivesOn(node) => Holds(Last(pruned), decl) )

\* the kinds of the definitions and extensions of object, interface and input
\* types
FieldedKinds ==
  { "ObjectTypeDefinition", "ObjectTypeExtension", "InterfaceTypeDefinition",
    "InterfaceTypeExtension", "InputObjectTypeDefinition", "InputObjectTypeExtension" }

\* the named types of the fields of the node and of their arguments, all List
\* and NonNull wrappers stripped, built-in scalars aside
FieldRefs(node) ==
  { name \in UNION { { unwrapTypeNameFrom(fd) }
                       \cup { unwrapTypeNameFrom(arg) : arg \in Range(fd.arguments) } :
                     fd \in Range(node.fields) } : name \notin BuiltIns }

\* C27: a turn of the first pass of the TypeMap-based filter that expands a
\* definition or an extension of an object, interface or input type leaves on
\* the work list, for each field of it, the named type under the List and
\* NonNull wrappers of the field type and of the type of each argument of the
\* field, unless that is a built-in scalar.
C27_FieldTypesPushed ==
  [][ (pc = "first pass" /\ pc' = "first pass" /\ visiting # << >>) =>
        \A node \in ExpandedAt(otherDependencies \o document, fvisited, Last(visiting)) :
          node.kind \in FieldedKinds => FieldRefs(node) \subseteq Range(visiting') ]_vars

\* C28: in a call of the TypeMap-based filter, a turn that pops a name whose
\* definition was expanded by an earlier turn of the call pushes nothing: the
\* name, its definition and its extensions are expanded once.
C28_ExpandedOnce ==
  [][ (/\ pc = "first pass" /\ pc' = "first pass"
       /\ visiting # << >>
       /\ Last(visiting) \in Range(fvisited)) =>
        visiting' = Front(visiting) ]_vars

\* the names that the import lines of the files reachable from the entry ask of
\* the target
AllRequests(target) ==
  UNION { Range(st.types) : st \in { t \in UNION { Range(statementsOf(g)) : g \in ReachableFiles } :
                                        t.fileName = target } }

\* C29: while the traversal runs no file has gone through a pass; when the merge
\* has begun the work stack is empty, every file reachable from the entry has
\* been scanned, the list of each file in the graph holds the wildcard marker
\* (entry file) and the names of all import lines of the reachable files that
\* name it, the graph does not change any more, and each pass uses the list of
\* the graph.
C29_FilterAfterTraversal ==
  /\ [] ( pc = "build" =>
            /\ \A f \in DOMAIN passes : passes[f] = 0
            /\ definitions = << >>
            /\ dependencies = {} )
  /\ [] ( pc \in { "merge", "filter", "done" } =>
            /\ files = << >>
            /\ \A f \in ReachableFiles : scans[f] = 1
            /\ keys(imports) = ReachableFiles
            /\ \A e \in Range(imports) :
                 Range(e.types) = (IF e.fileName = FileA THEN { "*" } ELSE {})
                                    \cup AllRequests(e.fileName)
            /\ \A e \in Range(entries) : e.types = get(imports, e.fileName) )
  /\ [] ( pc = "filter" => types = get(imports, fileName) )
  /\ [][ (pc = "merge" \/ pc = "filter" \/ pc = "done") => (imports' = imports) ]_vars

\* the filter pass of b runs with the name that the entry file asks of b and the
\* name that b, visited after it was recorded for the entry file, asks of itself
C29_Witness ==
  /\ pc = "filter"
  /\ fileName = FileB
  /\ statementsOf(FileA) = << importStatement(FileA, LineAb) >>
  /\ statementsOf(FileB) = << importStatement(FileB, LineCb) >>
  /\ types = << "A", "C" >>

\* the place of the file in the graph: files recorded earlier come first
PlaceOf(file) == CHOOSE i \in 1..Len(imports) : imports[i].fileName = file

\* C30: when a load returns, the merged list holds the definitions of each file
\* of the graph in one block, the block of a file recorded later before the
\* block of a file recorded earlier, and the definitions of the entry file, all
\* of them, as the last block.
C30_BlocksInReverseOrder ==
  pc = "done" =>
    /\ \A i \in 1..Len(output.definitions) : \A j \in 1..Len(output.definitions) :
         i < j => /\ hasKey(imports, output.definitions[i].file)
                  /\ hasKey(imports, output.definitions[j].file)
                  /\ PlaceOf(output.definitions[i].file) >= PlaceOf(output.definitions[j].file)
    /\ imports[1].fileName = FileA
    /\ SubSeq(output.definitions,
              Len(output.definitions) - Len(store[FileA].definitions) + 1,
              Len(output.definitions)) = tagged(FileA, store[FileA].definitions)

\* a load returned whose graph recorded the entry file, then b, then c: the
\* merged list begins with definitions of c, goes on with definitions of b and
\* ends with the entry file
C30_Witness ==
  /\ pc = "done"
  /\ Len(imports) = 3
  /\ imports[2].fileName = FileB
  /\ imports[3].fileName = FileC
  /\ output.definitions[1].file = FileC
  /\ blockOf(output.definitions, FileB) # << >>
  /\ Last(output.definitions).file = FileA

-----------------------------------------------------------------------------
(* Claims about the TypeMap, the implementers and the loads of one loader  *)

\* C31: in a sequence of calls of the TypeMap-based filter on one filter instance
\* with the same source Document object, a TypeMap is constructed in the first
\* call only: at no time has the instance constructed more than one.
C31_TypeMapBuiltOnce == constructed <= 1

\* the place of the last base definition of the name in the list
LastBase(defs, name) ==
  CHOOSE i \in 1..Len(defs) :
    /\ defs[i].kind \in BaseKinds /\ defs[i].name = name
    /\ \A j \in (i + 1)..Len(defs) : ~(defs[j].kind \in BaseKinds /\ defs[j].name = name)

\* a call of the TypeMap-based filter has built its TypeMap and stands before
\* the first turn of its loop
TypeMapBuilt == pc = "first pass" /\ fvisited = << >> /\ visiting = types

\* C32: in a TypeMap built from a list of definitions, the base-definition map
\* holds for every name the last non-extension definition of that name in list
\* order and holds no name without one; no extension node is in the
\* base-definition map; the extension map holds for every name its extension
\* nodes in list order.  (Stated of the TypeMap as the call has built it; no
\* later step of the call writes to it.)
C32_LastDefinitionWins ==
  TypeMapBuilt =>
  \A object \in DOMAIN _typeMaps :
    LET all == otherDependencies \o document
        typeMap == _typeMaps[object]
    IN
      /\ DOMAIN typeMap._types = { name \in TypeNames : HoldsBase(all, name) }
      /\ \A name \in DOMAIN typeMap._types :
           /\ typeMap._types[name] = all[LastBase(all, name)]
           /\ typeMap._types[name].kind \notin ExtensionKinds
      /\ DOMAIN typeMap._typeExtensions =
           { name \in TypeNames : ExtensionsNamed(all, name) # {} }
      /\ \A name \in DOMAIN typeMap._typeExtensions :
           typeMap._typeExtensions[name] = Pick(all, ExtensionsNamed(all, name), 1)

\* a TypeMap was built from a list that defines a name twice, in two ways, and
\* extends it
C32_Witness ==
  /\ TypeMapBuilt
  /\ \E object \in DOMAIN _typeMaps :
       LET all == otherDependencies \o document IN
         \E i \in 1..Len(all) : \E j \in 1..Len(all) : \E k \in 1..Len(all) :
           /\ i < j
           /\ all[i].kind \in BaseKinds /\ all[j].kind \in BaseKinds
           /\ all[i].name = all[j].name /\ all[i] # all[j]
           /\ all[k].kind \in ExtensionKinds /\ all[k].name = all[i].name
           /\ _typeMaps[object]._types[all[i].name] = all[j]
           /\ all[k] \in Range(_typeMaps[object]._typeExtensions[all[i].name])

\* C33: a turn of the first pass of the two-argument filter that expands the
\* base definition of a name, that definition being of another kind than an
\* interface type, pushes no implementer: every name it puts on the work list is
\* one the definition itself refers to.
C33_ImplementersOfInterfacesOnly ==
  [][ (/\ pc = "first pass" /\ pc' = "first pass"
       /\ visiting # << >>
       /\ HoldsBase(document, Last(visiting))
       /\ document[LastBase(document, Last(visiting))].kind # "InterfaceTypeDefinition") =>
        \A k \in Len(visiting)..Len(visiting') :
          visiting'[k] \in RuleRefs(document[LastBase(document, Last(visiting))]) ]_vars

\* the places of the base definitions of the name in the list
BasesNamed(defs, name) ==
  { i \in 1..Len(defs) : defs[i].kind \in BaseKinds /\ defs[i].name = name }

\* C34: in the document the TypeMap-based filter returns, every visited name has
\* one base definition, the one the TypeMap holds for the name, and the
\* extensions of the name, all of them and in their document order, stand
\* directly after it and nowhere else.
C34_DefinitionThenExtensions ==
  pc = "done" =>
    LET all == otherDependencies \o document
        result == Last(pruned)
    IN \A name \in Range(fvisited) :
         /\ Cardinality(BasesNamed(result, name)) = 1
         /\ \A i \in BasesNamed(result, name) :
              LET extensions == Pick(all, ExtensionsNamed(all, name), 1) IN
                /\ result[i] = all[LastBase(all, name)]
                /\ i + Len(extensions) <= Len(result)
                /\ SubSeq(result, i + 1, i + Len(extensions)) = extensions
                /\ ExtensionsNamed(result, name) = (i + 1)..(i + Len(extensions))

\* a call returned a document in which a visited name with two extensions stands
\* after another visited name
C34_Witness ==
  /\ pc = "done"
  /\ Len(fvisited) >= 2
  /\ \E name \in Range(fvisited) :
       /\ Cardinality(ExtensionsNamed(otherDependencies \o document, name)) >= 2
       /\ \E i \in BasesNamed(Last(pruned), name) : i > 1

\* C35: when the traversal of the import graph has ended, the keys of the
\* graph it returns are the visited files, and these are the files reachable
\* from the entry file through import lines.
C35_GraphIsReachableSet ==
  ((pc = "build" /\ files = << >>) \/ pc = "merge" \/ pc = "filter" \/ pc = "done") =>
    /\ keys(imports) = visited
    /\ visited = ReachableFiles

\* the traversal ended for an entry that reaches b and c, c only through b, while
\* c does not import
C35_Witness ==
  /\ pc = "merge"
  /\ entries = imports
  /\ ImportedBy({ FileA }) = { FileB }
  /\ FileC \in ImportedBy({ FileB })
  /\ keys(imports) = { FileA, FileB, FileC }

\* C36: the calls of loadFile made on one loader instance for one entry file,
\* the storage being the same, return the same text, the text the first call
\* made on the fresh instance returns: a call that overlaps another or follows
\* it returns what that one returns.
C36_LoadsReturnFreshText ==
  \A i \in 1..Len(returns) : \A j \in 1..Len(returns) : returns[i] = returns[j]

\* the parse calls made for the path
ParsesOf(path) == { i \in 1..Len(parseLog) : parseLog[i].filePath = path }

\* C37: on one loader instance, also when calls of loadFile overlap, the text
\* of a path is parsed at most once, and every parse call for the path returns
\* the same Document object, the one the parser cache holds for the path.
C37_ParsedOncePerPath ==
  \A path \in Files :
    /\ Cardinality({ i \in ParsesOf(path) : parseLog[i].parsed }) <= 1
    /\ \A i \in ParsesOf(path) :
         /\ parserHas(_graphqlCache, path)
         /\ parseLog[i].document.object = _graphqlCache[path].object
         /\ \A j \in ParsesOf(path) : parseLog[i].document = parseLog[j].document

\* two calls overlapped: one parsed the text of b and then waited in its merge
\* loop, the entry file still to come, while the other was given the cached
\* Document object of b; the text of the entry file was parsed after that
C37_Witness ==
  \E i \in ParsesOf(FileB) : \E j \in ParsesOf(FileB) : \E k \in ParsesOf(FileA) :
    /\ i < j /\ j < k
    /\ parseLog[i].parsed /\ ~parseLog[j].parsed /\ parseLog[k].parsed
    /\ parseLog[j].document.object = parseLog[i].document.object

\* the operators the turns of the filter read are the maps of the TypeMap
TypeMapReads ==
  \A object \in DOMAIN _typeMaps :
    LET all == otherDependencies \o document
        typeMap == _typeMaps[object]
    IN \A name \in TypeNames :
         /\ hasDefinition(all, name) <=> name \in DOMAIN typeMap._types
         /\ hasDefinition(all, name) => getType(all, name) = typeMap._types[name]
         /\ getTypeExtensions(all, name) =
              (IF name \in DOMAIN typeMap._typeExtensions
                 THEN typeMap._typeExtensions[name] ELSE << >>)
         /\ getImplementationsOf(all, name) =
              (IF name \in DOMAIN typeMap._interfaceImplementations
                 THEN typeMap._interfaceImplementations[name] ELSE << >>)

=============================================================================
